---- MODULE Spec2Model ----
(***************************************************************************)
(* A model of decode_keystone_ur.py: the UR:BYTES decoder that turns a     *)
(* text payload into bytes, parses the bytes as a CBOR item, searches the  *)
(* item for a transaction blob and falls back to a scan for a long hex     *)
(* run.                                                                    *)
(*                                                                         *)
(* Representation.  A Python str is a sequence of code points, a bytes     *)
(* object a sequence of numbers in 0..255.  Every Python value is a record *)
(* [tag, val]: tag is "none", "str", "bytes", "int", "bool", "list",       *)
(* "dict" or "raise" (an exception leaving the callee) and val is a        *)
(* sequence (the characters, the bytes, the one number, the items, or the  *)
(* [k, v] pairs of a dict in insertion order).                             *)
(***************************************************************************)
EXTENDS Integers, Sequences, FiniteSets, TLC

VARIABLES
    ur_data,          \* main: sys.argv[1]
    cbor2_available,  \* whether "import cbor2" succeeds in this installation
    pc,               \* position in main / decode_keystone_ur / decode_base32_alphabet
    ur_content,       \* decode_keystone_ur: the content after prefix removal
    bytewords_result, \* decode_base32_alphabet: result of decode_keystone_bytewords
    decoded_bytes,    \* decode_keystone_ur: result of decode_base32_alphabet
    cbor_data,        \* decode_keystone_ur: result of decode_cbor_bytes
    tx_blob,          \* decode_keystone_ur: result of extract_xrpl_transaction
    result,           \* main: what decode_keystone_ur returned (or that it raised)
    success,          \* main: the "success" field printed
    ran               \* the strategies that were run, for observation

vars == <<ur_data, cbor2_available, pc, ur_content, bytewords_result,
          decoded_bytes, cbor_data, tx_blob, result, success, ran>>

----------------------------------------------------------------------------
(* Python values *)

NoneVal == [tag |-> "none", val |-> <<>>]
RaiseVal == [tag |-> "raise", val |-> <<>>]
StrVal(s) == [tag |-> "str", val |-> s]
BytesVal(b) == [tag |-> "bytes", val |-> b]
IntVal(n) == [tag |-> "int", val |-> <<n>>]
BoolVal(b) == [tag |-> "bool", val |-> <<IF b THEN 1 ELSE 0>>]
ListVal(items) == [tag |-> "list", val |-> items]
DictVal(pairs) == [tag |-> "dict", val |-> pairs]

\* Python truthiness ("if x:") of the values above.
Truthy(x) ==
    CASE x.tag = "none" -> FALSE
      [] x.tag \in {"int", "bool"} -> x.val[1] # 0
      [] OTHER -> Len(x.val) > 0

\* The concatenation of a sequence of sequences (by halves, to keep the
\* evaluation shallow on long strings).
RECURSIVE Flatten(_)
Flatten(ss) ==
    IF Len(ss) = 0 THEN <<>>
    ELSE IF Len(ss) = 1 THEN ss[1]
    ELSE LET mid == Len(ss) \div 2
         IN Flatten(SubSeq(ss, 1, mid)) \o Flatten(SubSeq(ss, mid + 1, Len(ss)))

\* s * n of Python.
Rep(s, n) == IF n <= 0 THEN <<>> ELSE [i \in 1..(n * Len(s)) |-> s[((i - 1) % Len(s)) + 1]]

----------------------------------------------------------------------------
(* str.upper() on the code points the model uses: ASCII letters, and the   *)
(* two non-ASCII letters whose upper case is an ASCII letter or two:       *)
(* U+00DF (sharp s) becomes "SS", U+017F (long s) becomes "S".             *)

UpperChar(c) ==
    IF c >= 97 /\ c <= 122 THEN <<c - 32>>
    ELSE IF c = 223 THEN <<83, 83>>
    ELSE IF c = 383 THEN <<83>>
    ELSE <<c>>

UpperStr(s) == Flatten([i \in DOMAIN s |-> UpperChar(s[i])])

----------------------------------------------------------------------------
(* decode_keystone_bytewords *)

\* The character value of lines 30-35, on a character of the upper-cased chunk.
CharVal(char) ==
    IF char >= 65 /\ char <= 90 THEN char - 65
    ELSE IF char >= 48 /\ char <= 57 THEN char - 48 + 26
    ELSE 0

Pow36(e) == CASE e = 0 -> 1 [] e = 1 -> 36 [] e = 2 -> 1296 [] e = 3 -> 46656

\* Lines 28-37 on a chunk of at most four characters.
RECURSIVE ChunkByteFrom(_, _, _)
ChunkByteFrom(chunk, j, byte_val) ==
    IF j >= Len(chunk) THEN byte_val
    ELSE ChunkByteFrom(chunk, j + 1,
                       (byte_val + CharVal(chunk[j + 1]) * Pow36(3 - j)) % 256)

ChunkByte(chunk) == ChunkByteFrom(chunk, 0, 0)

\* The while loop of lines 23-40.  A chunk whose upper case has more than four
\* characters reaches j = 4, where 36 ** (3 - j) is a float: byte_val becomes a
\* float and bytearray.append raises TypeError.
RECURSIVE BytewordsLoop(_, _, _)
BytewordsLoop(data, i, bytes_result) ==
    IF i < Len(data) - 3
    THEN LET chunk == UpperStr(SubSeq(data, i + 1, i + 4))
         IN IF Len(chunk) > 4 THEN RaiseVal
            ELSE BytewordsLoop(data, i + 4, Append(bytes_result, ChunkByte(chunk)))
    ELSE BytesVal(bytes_result)

decode_keystone_bytewords(data) == BytewordsLoop(data, 0, <<>>)

----------------------------------------------------------------------------
(* decode_base32_alphabet *)

\* A threshold one too high.
BytewordsMinLenHigher == 10 + 1

\* The length above which the bytewords decoding is tried (line 49).
BytewordsMinLen == 10

\* alphabet.upper(), "023456789ACDEFGHJKLMNPQRSTUVWXYZ" (lines 55, 59).
CustomAlphabet ==
    <<48, 50, 51, 52, 53, 54, 55, 56, 57, 65, 67, 68, 69, 70, 71, 72,
      74, 75, 76, 77, 78, 80, 81, 82, 83, 84, 85, 86, 87, 88, 89, 90>>

\* standard_alphabet, "ABCDEFGHIJKLMNOPQRSTUVWXYZ234567" (line 56).
StandardAlphabet ==
    <<65, 66, 67, 68, 69, 70, 71, 72, 73, 74, 75, 76, 77, 78, 79, 80,
      81, 82, 83, 84, 85, 86, 87, 88, 89, 90, 50, 51, 52, 53, 54, 55>>

\* The first index of c in seq, 0 when c does not occur.
IndexOf(seq, c) ==
    IF \E i \in DOMAIN seq : seq[i] = c
    THEN CHOOSE i \in DOMAIN seq : seq[i] = c /\ \A k \in 1..(i - 1) : seq[k] # c
    ELSE 0

\* str.translate with the table of line 59: a character outside the table is kept.
TranslateChar(c) ==
    LET i == IndexOf(CustomAlphabet, c)
    IN IF i = 0 THEN c ELSE StandardAlphabet[i]

\* data.upper().translate(translation) (line 62).
Translated(data) == LET u == UpperStr(data) IN [i \in DOMAIN u |-> TranslateChar(u[i])]

RECURSIVE RStripPad(_)
RStripPad(s) ==
    IF s # <<>> /\ s[Len(s)] = 61 THEN RStripPad(SubSeq(s, 1, Len(s) - 1)) ELSE s

\* The five bits of a base-32 digit, most significant first.
DigitBits(v) == <<(v \div 16) % 2, (v \div 8) % 2, (v \div 4) % 2, (v \div 2) % 2, v % 2>>

ByteOfBits(bits, k) ==
    LET b(i) == bits[8 * (k - 1) + i]
    IN 128 * b(1) + 64 * b(2) + 32 * b(3) + 16 * b(4) + 8 * b(5) + 4 * b(6) + 2 * b(7) + b(8)

\* acc.to_bytes(5) for a 40-bit accumulator given as its bits.
FiveBytes(bits) == [k \in 1..5 |-> ByteOfBits(bits, k)]

\* The bits of the accumulator after folding the digits of a quantum:
\* acc = (acc << 5) + b32rev[c], then `shift` further zero bits on the right,
\* in 40 bits (to_bytes(5) is big endian, so a short quantum is right-aligned).
QuantumBits(digits, shift) ==
    LET body == Flatten([i \in DOMAIN digits |-> DigitBits(digits[i])]) \o Rep(<<0>>, shift)
    IN Rep(<<0>>, 40 - Len(body)) \o body

\* base64.b32decode(s) of the standard library, as called at line 67: the
\* bytes, or RaiseVal where it raises (ValueError for a non-ASCII str,
\* binascii.Error for bad length, a non-alphabet character or bad padding).
b32decode(s) ==
    IF \E i \in DOMAIN s : s[i] > 127 THEN RaiseVal
    ELSE IF Len(s) % 8 # 0 THEN RaiseVal
    ELSE
      LET l == Len(s)
          t == RStripPad(s)
          padchars == l - Len(t)
          nq == (Len(t) + 7) \div 8
          digits(q) ==
              LET quanta == SubSeq(t, 8 * (q - 1) + 1, IF 8 * q < Len(t) THEN 8 * q ELSE Len(t))
              IN [i \in DOMAIN quanta |-> IndexOf(StandardAlphabet, quanta[i]) - 1]
          full == Flatten([q \in 1..nq |-> FiveBytes(QuantumBits(digits(q), 0))])
      IN IF \E i \in DOMAIN t : IndexOf(StandardAlphabet, t[i]) = 0 THEN RaiseVal
         ELSE IF padchars \notin {0, 1, 3, 4, 6} THEN RaiseVal
         ELSE IF padchars # 0 /\ full # <<>>
         THEN LET last == FiveBytes(QuantumBits(digits(nq), 5 * padchars))
                  leftover == (43 - 5 * padchars) \div 8
              IN BytesVal(SubSeq(full, 1, Len(full) - 5) \o SubSeq(last, 1, leftover))
         ELSE BytesVal(full)

\* The loop of lines 64-70: the first padding amount that decodes, else b"".
RECURSIVE Base32PaddingLoop(_, _)
Base32PaddingLoop(translated, padding) ==
    IF padding >= 8 THEN BytesVal(<<>>)
    ELSE LET r == b32decode(translated \o Rep(<<61>>, padding))
         IN IF r.tag = "bytes" THEN r ELSE Base32PaddingLoop(translated, padding + 1)

\* Lines 54-73: the base-32 fallback of decode_base32_alphabet.
Base32Fallback(data) == Base32PaddingLoop(Translated(data), 0)

\* decode_base32_alphabet as a function: the bytes, or RaiseVal when
\* decode_keystone_bytewords raises (line 50 is outside the try).
decode_base32_alphabet(data) ==
    IF Len(data) > BytewordsMinLen
    THEN LET r == decode_keystone_bytewords(data)
         IN IF r.tag = "raise" THEN r
            ELSE IF Truthy(r) THEN r
            ELSE Base32Fallback(data)
    ELSE Base32Fallback(data)

----------------------------------------------------------------------------
(* decode_cbor_bytes: cbor2.loads on the bytes, None when cbor2 is missing *)
(* or raises.  cbor2.loads decodes one data item (RFC 8949) from the start *)
(* of the bytes.  The decoder below covers the items with an immediate,    *)
(* one-byte or two-byte argument: integers, byte and text strings (ASCII), arrays,    *)
(* maps, false, true and null.  An item outside this subset is reported as *)
(* "unmodelled"; Init admits only inputs that never produce one.           *)

CborFail == [st |-> "fail", val |-> NoneVal, next |-> 0]
CborUnmodelled == [st |-> "unmodelled", val |-> NoneVal, next |-> 0]
CborOk(v, next) == [st |-> "ok", val |-> v, next |-> next]

\* Python equality of two dict keys: equal values; True == 1 and False == 0.
KeyEq(a, b) ==
    IF a.tag \in {"int", "bool"} /\ b.tag \in {"int", "bool"} THEN a.val = b.val
    ELSE a = b

\* d[k] = v on the pairs of a dict: a present key keeps its place and takes the new value.
DictSet(pairs, k, v) ==
    IF \E i \in DOMAIN pairs : KeyEq(pairs[i].k, k)
    THEN [i \in DOMAIN pairs |-> IF KeyEq(pairs[i].k, k) THEN [k |-> pairs[i].k, v |-> v] ELSE pairs[i]]
    ELSE Append(pairs, [k |-> k, v |-> v])

\* The argument of the initial byte at pos: its value and the position after it.
CborArg(data, pos) ==
    LET ai == data[pos] % 32
        mt == data[pos] \div 32
    IN IF ai < 24 THEN CborOk(IntVal(ai), pos + 1)
       ELSE IF ai = 24
            THEN IF pos + 1 > Len(data) THEN CborFail
                 ELSE CborOk(IntVal(data[pos + 1]), pos + 2)
       ELSE IF ai = 25
            THEN IF pos + 2 > Len(data) THEN CborFail
                 ELSE CborOk(IntVal(256 * data[pos + 1] + data[pos + 2]), pos + 3)
       ELSE IF ai \in 28..30 THEN CborFail
       ELSE IF ai = 31 /\ mt \in {0, 1, 6, 7} THEN CborFail
       ELSE CborUnmodelled

RECURSIVE CborItem(_, _), CborArray(_, _, _, _), CborMap(_, _, _, _)

CborItem(data, pos) ==
    IF pos > Len(data) THEN CborFail
    ELSE
      LET mt == data[pos] \div 32
          ai == data[pos] % 32
          arg == CborArg(data, pos)
          n == arg.val.val[1]
          body == SubSeq(data, arg.next, arg.next + n - 1)
      IN IF arg.st # "ok" THEN arg
         ELSE CASE mt = 0 -> CborOk(IntVal(n), arg.next)
                [] mt = 1 -> CborOk(IntVal(-1 - n), arg.next)
                [] mt = 2 -> IF arg.next + n - 1 > Len(data) THEN CborFail
                             ELSE CborOk(BytesVal(body), arg.next + n)
                [] mt = 3 -> IF arg.next + n - 1 > Len(data) THEN CborFail
                             ELSE IF \E i \in DOMAIN body : body[i] > 127 THEN CborUnmodelled
                             ELSE CborOk(StrVal(body), arg.next + n)
                [] mt = 4 -> CborArray(data, arg.next, n, <<>>)
                [] mt = 5 -> CborMap(data, arg.next, n, <<>>)
                [] mt = 6 -> CborUnmodelled
                [] mt = 7 -> IF ai = 20 THEN CborOk(BoolVal(FALSE), arg.next)
                             ELSE IF ai = 21 THEN CborOk(BoolVal(TRUE), arg.next)
                             ELSE IF ai = 22 THEN CborOk(NoneVal, arg.next)
                             ELSE CborUnmodelled

CborArray(data, pos, n, items) ==
    IF n = 0 THEN CborOk(ListVal(items), pos)
    ELSE LET item == CborItem(data, pos)
         IN IF item.st # "ok" THEN item
            ELSE CborArray(data, item.next, n - 1, Append(items, item.val))

CborMap(data, pos, n, pairs) ==
    IF n = 0 THEN CborOk(DictVal(pairs), pos)
    ELSE LET key == CborItem(data, pos)
         IN IF key.st # "ok" THEN key
            ELSE LET value == CborItem(data, key.next)
                 IN IF value.st # "ok" THEN value
                    ELSE CborMap(data, value.next, n - 1, DictSet(pairs, key.val, value.val))

\* Lines 79-87.  ImportError and any exception of cbor2.loads give None.
decode_cbor_bytes(data, available) ==
    IF ~available THEN NoneVal
    ELSE LET item == CborItem(data, 1)
         IN IF item.st = "ok" THEN item.val ELSE NoneVal

----------------------------------------------------------------------------
(* extract_xrpl_transaction *)

F_signedTransaction == <<115, 105, 103, 110, 101, 100, 84, 114, 97, 110, 115, 97, 99, 116, 105, 111, 110>>
F_signature == <<115, 105, 103, 110, 97, 116, 117, 114, 101>>
F_txBlob == <<116, 120, 66, 108, 111, 98>>
F_blob == <<98, 108, 111, 98>>
F_transaction == <<116, 114, 97, 110, 115, 97, 99, 116, 105, 111, 110>>
F_hex == <<104, 101, 120>>
F_data == <<100, 97, 116, 97>>

\* possible_fields (lines 97-105), in order.
possible_fields ==
    <<F_signedTransaction, F_signature, F_txBlob, F_blob, F_transaction, F_hex, F_data>>

HexChar(c) == (c >= 48 /\ c <= 57) \/ (c >= 65 /\ c <= 70) \/ (c >= 97 /\ c <= 102)

\* re.match(r'^[0-9A-Fa-f]+$', value) (line 111): in Python "$" matches at the
\* end of the string and also just before a newline that ends the string.
ReMatchHex(value) ==
    LET body == IF value # <<>> /\ value[Len(value)] = 10
                THEN SubSeq(value, 1, Len(value) - 1)
                ELSE value
    IN body # <<>> /\ \A i \in DOMAIN body : HexChar(body[i])

HexDigitLower(n) == IF n < 10 THEN 48 + n ELSE 87 + n

\* bytes.hex() (line 114).
BytesHex(b) == Flatten([i \in DOMAIN b |-> <<HexDigitLower(b[i] \div 16), HexDigitLower(b[i] % 16)>>])

\* "field in cbor_data" and "cbor_data[field]" for a str field.
DictHas(d, field) == \E i \in DOMAIN d.val : d.val[i].k = StrVal(field)
DictGet(d, field) == d.val[CHOOSE i \in DOMAIN d.val : d.val[i].k = StrVal(field)].v

\* A loop that gives up at the first name present whose value does not qualify.
RECURSIVE FieldLoopFirstPresent(_, _)
FieldLoopFirstPresent(d, f) ==
    IF f > Len(possible_fields) THEN NoneVal
    ELSE IF DictHas(d, possible_fields[f])
    THEN LET value == DictGet(d, possible_fields[f])
         IN IF value.tag = "str" /\ ReMatchHex(value.val) THEN StrVal(UpperStr(value.val))
            ELSE IF value.tag = "bytes" THEN StrVal(UpperStr(BytesHex(value.val)))
            ELSE NoneVal
    ELSE FieldLoopFirstPresent(d, f + 1)

\* The loop of lines 108-114 from the f-th field name on: the string it
\* returns, or NoneVal when the loop ends without returning.
RECURSIVE FieldLoop(_, _)
FieldLoop(d, f) ==
    IF f > Len(possible_fields) THEN NoneVal
    ELSE IF DictHas(d, possible_fields[f])
    THEN LET value == DictGet(d, possible_fields[f])
         IN IF value.tag = "str" /\ ReMatchHex(value.val) THEN StrVal(UpperStr(value.val))
            ELSE IF value.tag = "bytes" THEN StrVal(UpperStr(BytesHex(value.val)))
            ELSE FieldLoop(d, f + 1)
    ELSE FieldLoop(d, f + 1)

RECURSIVE extract_xrpl_transaction(_), NestedLoop(_, _), NestedLoopNotNone(_, _)

\* A nested search with "is not None" in place of the truthiness test.
NestedLoopNotNone(d, i) ==
    IF i > Len(d.val) THEN NoneVal
    ELSE LET value == d.val[i].v
         IN IF value.tag = "dict"
            THEN LET r == extract_xrpl_transaction(value)
                 IN IF r # NoneVal THEN r ELSE NestedLoopNotNone(d, i + 1)
            ELSE NestedLoopNotNone(d, i + 1)

\* The loop of lines 117-121 from the i-th item on, and line 123.
NestedLoop(d, i) ==
    IF i > Len(d.val) THEN NoneVal
    ELSE LET value == d.val[i].v
         IN IF value.tag = "dict"
            THEN LET r == extract_xrpl_transaction(value)
                 IN IF Truthy(r) THEN r ELSE NestedLoop(d, i + 1)
            ELSE NestedLoop(d, i + 1)

extract_xrpl_transaction(data) ==
    IF data.tag # "dict" THEN NoneVal
    ELSE LET top == FieldLoop(data, 1)
         IN IF top.tag = "str" THEN top ELSE NestedLoop(data, 1)

----------------------------------------------------------------------------
(* decode_keystone_ur: prefix removal and the hex scan *)

\* 'UR:BYTES/' (line 130).
UrPrefix == <<85, 82, 58, 66, 89, 84, 69, 83, 47>>

StartsWith(s, p) == Len(s) >= Len(p) /\ SubSeq(s, 1, Len(p)) = p

\* A prefix removal that cuts one character too few.
StripPrefixShort(s) == IF StartsWith(s, UrPrefix) THEN SubSeq(s, 9, Len(s)) ELSE s

\* Lines 130-133.
StripPrefix(s) == IF StartsWith(s, UrPrefix) THEN SubSeq(s, 10, Len(s)) ELSE s

\* A least length one too low.
MinHexRunLower == 100 - 1

\* The least length of a hex run of the pattern of line 147.
MinHexRun == 100

\* The prefixes of line 150: '12', '00', '01', '02', '03', '05'.
TxPrefixes == <<<<49, 50>>, <<48, 48>>, <<48, 49>>, <<48, 50>>, <<48, 51>>, <<48, 53>>>>

\* The position after the longest run of hex characters that starts at i.
HexRunEnd(s, i) ==
    CHOOSE e \in i..(Len(s) + 1) :
        /\ \A k \in i..(e - 1) : HexChar(s[k])
        /\ e = Len(s) + 1 \/ ~HexChar(s[e])

\* re.findall(r'([0-9A-Fa-f]{100,})', s) from position i on (line 147): the
\* leftmost greedy matches, none overlapping.  Where the run that starts at i
\* is too short, so is every run that starts inside it: the search resumes
\* after it.
RECURSIVE FindAllHex(_, _)
FindAllHex(s, i) ==
    IF i > Len(s) THEN <<>>
    ELSE LET e == HexRunEnd(s, i)
         IN IF e - i >= MinHexRun
            THEN <<SubSeq(s, i, e - 1)>> \o FindAllHex(s, e)
            ELSE FindAllHex(s, IF e > i THEN e ELSE i + 1)

\* The loop of lines 148-151 and line 153.
RECURSIVE FirstTxMatch(_)
FirstTxMatch(matches) ==
    IF matches = <<>> THEN NoneVal
    ELSE IF \E k \in DOMAIN TxPrefixes : StartsWith(Head(matches), TxPrefixes[k])
    THEN StrVal(UpperStr(Head(matches)))
    ELSE FirstTxMatch(Tail(matches))

\* Method 2 (lines 146-153).
ScanFallback(content) == FirstTxMatch(FindAllHex(content, 1))

----------------------------------------------------------------------------
(* The whole of decode_keystone_ur on a content, as a function of the      *)
(* content and of the installation (lines 137-153).                        *)

DecodeContent(content, available) ==
    LET bytes == decode_base32_alphabet(content)
        cbor == IF Truthy(bytes) THEN decode_cbor_bytes(bytes.val, available) ELSE NoneVal
        blob == IF Truthy(cbor) THEN extract_xrpl_transaction(cbor) ELSE NoneVal
    IN IF bytes.tag = "raise" THEN RaiseVal
       ELSE IF Truthy(blob) THEN blob
       ELSE ScanFallback(content)

----------------------------------------------------------------------------
(* Inputs.  A CBOR item is written out by EncodeCbor and turned into text  *)
(* that the bytewords decoding maps back to the same bytes: the byte b is  *)
(* the chunk "AA" c d with 36 * value(c) + value(d) = b.                   *)

RECURSIVE EncodeCbor(_)
EncodeCbor(v) ==
    CASE v.tag = "str" -> <<96 + Len(v.val)>> \o v.val
      [] v.tag = "bytes" -> <<64 + Len(v.val)>> \o v.val
      [] v.tag = "int" -> <<v.val[1]>>
      [] v.tag = "none" -> <<246>>
      [] v.tag = "list" -> <<128 + Len(v.val)>> \o Flatten([i \in DOMAIN v.val |-> EncodeCbor(v.val[i])])
      [] v.tag = "dict" -> <<160 + Len(v.val)>>
                           \o Flatten([i \in DOMAIN v.val |-> EncodeCbor(v.val[i].k) \o EncodeCbor(v.val[i].v)])

WordChar(v) == IF v < 26 THEN 65 + v ELSE 48 + (v - 26)

TextOfBytes(bs) == Flatten([i \in DOMAIN bs |-> <<65, 65, WordChar(bs[i] \div 36), WordChar(bs[i] % 36)>>])

Pair(key, value) == [k |-> StrVal(key), v |-> value]

K_other == <<111, 116, 104, 101, 114>>
K_a == <<97>>
K_b == <<98>>

\* The decoded values the end-to-end inputs carry.
PipelineValues ==
    { DictVal(<<Pair(F_txBlob, StrVal(<<49, 50, 51, 52, 65, 66, 67, 68>>))>>),
      DictVal(<<Pair(F_signature, StrVal(<<122, 122>>)), Pair(F_txBlob, StrVal(<<49, 49, 50, 50>>))>>),
      DictVal(<<Pair(K_other, DictVal(<<Pair(F_hex, StrVal(<<65, 65, 66, 66>>))>>))>>),
      DictVal(<<Pair(F_data, BytesVal(<<>>))>>),
      DictVal(<<Pair(F_hex, StrVal(<<65, 66, 67>>))>>),
      DictVal(<<Pair(F_hex, StrVal(<<97, 98, 10>>))>>),
      DictVal(<<Pair(F_blob, BytesVal(<<18, 171>>))>>),
      DictVal(<<Pair(K_other, StrVal(<<122, 122>>))>>),
      DictVal(<<Pair(K_a, DictVal(<<Pair(F_data, BytesVal(<<>>))>>)),
                Pair(K_b, DictVal(<<Pair(F_hex, StrVal(<<97, 97>>))>>))>>),
      ListVal(<<DictVal(<<Pair(F_hex, StrVal(<<65, 65>>))>>)>>),
      StrVal(<<49, 50, 51, 52, 65, 66, 67, 68>>),
      IntVal(7) }

\* Encodings that are not the shortest one: {} and 0 with a two-byte argument,
\* and a map cut short (its last byte is missing).
PipelineBytes ==
    { EncodeCbor(v) : v \in PipelineValues }
    \cup { <<185, 0, 0>>, <<25, 0, 0>>,
           LET e == EncodeCbor(DictVal(<<Pair(F_txBlob, StrVal(<<49, 50, 51, 52, 65, 66, 67, 68>>))>>))
           IN SubSeq(e, 1, Len(e) - 1) }

HexRun(start, fill, n) == start \o Rep(<<fill>>, n - Len(start))

\* Texts that are no encoding of anything: short ones, texts holding long hex
\* runs, and a text with a letter whose upper case is two letters.
RawTexts ==
    { <<>>, <<35, 35, 35>>, <<65, 65>>, <<78, 54, 75, 81, 74, 84, 68, 83, 57, 48>>, <<65, 65, 65, 65, 65, 65, 65, 65, 65, 65>>,
      <<120, 121, 122>> \o <<49, 50>> \o Rep(<<65, 66>>, 60),
      <<120, 121, 122>> \o HexRun(<<49, 50>>, 97, 101),
      <<120, 121, 122>> \o HexRun(<<49, 57>>, 65, 120),
      <<120, 121, 122>> \o HexRun(<<49, 50>>, 65, 99),
      <<120, 121, 122>> \o HexRun(<<49, 57>>, 65, 100) \o <<35>> \o HexRun(<<48, 53>>, 102, 100),
      <<223>> \o Rep(<<65>>, 11),
      <<65, 65, 65, 223>> \o Rep(<<65>>, 8) }

\* The number of times the prefix may be put in front of a content.
MaxPrefixes == 2

Contents == { TextOfBytes(b) : b \in PipelineBytes } \cup RawTexts

UrInputs == { Rep(UrPrefix, n) \o c : n \in 0..MaxPrefixes, c \in Contents }

\* The bytes decode_base32_alphabet gives for an input parse within the
\* modelled subset of CBOR (see decode_cbor_bytes).
InModelledSubset(input) ==
    LET bytes == decode_base32_alphabet(StripPrefix(input))
    IN Truthy(bytes) => CborItem(bytes.val, 1).st # "unmodelled"

----------------------------------------------------------------------------
(* The state machine of one run of main (lines 155-179). *)

Unset ==
    /\ bytewords_result = NoneVal
    /\ decoded_bytes = NoneVal
    /\ cbor_data = NoneVal
    /\ tx_blob = NoneVal
    /\ result = NoneVal
    /\ success = FALSE
    /\ ran = {}

Init ==
    /\ ur_data \in { u \in UrInputs : InModelledSubset(u) }
    /\ cbor2_available \in BOOLEAN
    /\ pc = "main"
    /\ ur_content = <<>>
    /\ Unset

\* Lines 130-133.
Strip ==
    /\ pc = "main"
    /\ ur_content' = StripPrefix(ur_data)
    /\ pc' = "method1"
    /\ UNCHANGED <<ur_data, cbor2_available, bytewords_result, decoded_bytes,
                   cbor_data, tx_blob, result, success, ran>>

\* Line 138 into decode_base32_alphabet, lines 49-52.
Base32Entry ==
    /\ pc = "method1"
    /\ IF Len(ur_content) > BytewordsMinLen
       THEN LET r == decode_keystone_bytewords(ur_content)
            IN /\ bytewords_result' = r
               /\ ran' = ran \cup {"bytewords"}
               /\ IF r.tag = "raise"
                  THEN result' = RaiseVal /\ pc' = "raised" /\ UNCHANGED decoded_bytes
                  ELSE IF Truthy(r)
                  THEN decoded_bytes' = r /\ pc' = "have_bytes" /\ UNCHANGED result
                  ELSE pc' = "base32" /\ UNCHANGED <<decoded_bytes, result>>
       ELSE pc' = "base32" /\ UNCHANGED <<bytewords_result, decoded_bytes, result, ran>>
    /\ UNCHANGED <<ur_data, cbor2_available, ur_content, cbor_data, tx_blob, success>>

\* decode_base32_alphabet, lines 54-73.
Base32FallbackStep ==
    /\ pc = "base32"
    /\ decoded_bytes' = Base32Fallback(ur_content)
    /\ ran' = ran \cup {"base32"}
    /\ pc' = "have_bytes"
    /\ UNCHANGED <<ur_data, cbor2_available, ur_content, bytewords_result,
                   cbor_data, tx_blob, result, success>>

\* Lines 139-140.
CborStep ==
    /\ pc = "have_bytes"
    /\ IF Truthy(decoded_bytes)
       THEN /\ cbor_data' = decode_cbor_bytes(decoded_bytes.val, cbor2_available)
            /\ ran' = ran \cup {"cbor"}
            /\ pc' = "have_cbor"
       ELSE pc' = "method2" /\ UNCHANGED <<cbor_data, ran>>
    /\ UNCHANGED <<ur_data, cbor2_available, ur_content, bytewords_result,
                   decoded_bytes, tx_blob, result, success>>

\* Lines 141-144 with "is not None" in place of the truthiness test on tx_blob.
ExtractStepNotNone ==
    /\ pc = "have_cbor"
    /\ IF Truthy(cbor_data)
       THEN LET blob == extract_xrpl_transaction(cbor_data)
            IN /\ tx_blob' = blob
               /\ ran' = ran \cup {"extract"}
               /\ IF blob.tag = "str"
                  THEN result' = blob /\ pc' = "returned"
                  ELSE pc' = "method2" /\ UNCHANGED result
       ELSE pc' = "method2" /\ UNCHANGED <<tx_blob, result, ran>>
    /\ UNCHANGED <<ur_data, cbor2_available, ur_content, bytewords_result,
                   decoded_bytes, cbor_data, success>>

\* Lines 141-144.
ExtractStep ==
    /\ pc = "have_cbor"
    /\ IF Truthy(cbor_data)
       THEN LET blob == extract_xrpl_transaction(cbor_data)
            IN /\ tx_blob' = blob
               /\ ran' = ran \cup {"extract"}
               /\ IF Truthy(blob)
                  THEN result' = blob /\ pc' = "returned"
                  ELSE pc' = "method2" /\ UNCHANGED result
       ELSE pc' = "method2" /\ UNCHANGED <<tx_blob, result, ran>>
    /\ UNCHANGED <<ur_data, cbor2_available, ur_content, bytewords_result,
                   decoded_bytes, cbor_data, success>>

\* Lines 146-153.
ScanStep ==
    /\ pc = "method2"
    /\ result' = ScanFallback(ur_content)
    /\ ran' = ran \cup {"scan"}
    /\ pc' = "returned"
    /\ UNCHANGED <<ur_data, cbor2_available, ur_content, bytewords_result,
                   decoded_bytes, cbor_data, tx_blob, success>>

\* Lines 163-174: the truthiness test on the result.
MainResult ==
    /\ pc = "returned"
    /\ success' = Truthy(result)
    /\ pc' = "done"
    /\ UNCHANGED <<ur_data, cbor2_available, ur_content, bytewords_result,
                   decoded_bytes, cbor_data, tx_blob, result, ran>>

\* Lines 175-179: an exception out of decode_keystone_ur.
MainExcept ==
    /\ pc = "raised"
    /\ success' = FALSE
    /\ pc' = "done"
    /\ UNCHANGED <<ur_data, cbor2_available, ur_content, bytewords_result,
                   decoded_bytes, cbor_data, tx_blob, result, ran>>

Next ==
    \/ Strip
    \/ Base32Entry
    \/ Base32FallbackStep
    \/ CborStep
    \/ ExtractStep
    \/ ScanStep
    \/ MainResult
    \/ MainExcept

Spec == Init /\ [][Next]_vars

----------------------------------------------------------------------------
(* Claims about a run of main (specification Spec). *)

\* What decode_keystone_ur gives for an input: prefix removal, then the rest.
DecodeUr(input, available) == DecodeContent(StripPrefix(input), available)

\* The input without its first nine characters.
AfterPrefix(input) == SubSeq(input, 10, Len(input))

\* C1 (as claimed): decode returns the extracted string, without running the
\* scan, whenever the text decoding gave bytes, the object decoder gave a value
\* and the extractor gave a string for it; in every other case it returns the
\* result of the scan on the stripped content.
C1_Claim ==
    pc = "done" =>
        LET value == IF Truthy(decoded_bytes)
                     THEN decode_cbor_bytes(decoded_bytes.val, cbor2_available)
                     ELSE NoneVal
            field == IF value # NoneVal THEN extract_xrpl_transaction(value) ELSE NoneVal
        IN IF field.tag = "str"
           THEN result = field /\ "scan" \notin ran
           ELSE result = ScanFallback(ur_content)

\* An extracted blob: non-empty, only 0-9 and A-F, of even length.
IsExtractedBlob(s) ==
    /\ s # <<>>
    /\ \A i \in DOMAIN s : (s[i] >= 48 /\ s[i] <= 57) \/ (s[i] >= 65 /\ s[i] <= 70)
    /\ Len(s) % 2 = 0

\* C2 (as claimed): every string reported as a success is an extracted blob.
C2_Claim == pc = "done" /\ success => IsExtractedBlob(result.val)

\* C3 (as claimed): for every X, decode("UR:BYTES/" + X) gives what decode(X) gives.
C3_Claim ==
    pc = "done" /\ StartsWith(ur_data, UrPrefix)
        => result = DecodeUr(AfterPrefix(ur_data), cbor2_available)

\* C3 (amended): for every X that does not itself start with "UR:BYTES/",
\* decode("UR:BYTES/" + X) gives what decode(X) gives (the same string, none, or
\* the same exception); an input without the prefix is used unchanged.
C3_PrefixStrippedOnce ==
    /\ pc = "done" /\ StartsWith(ur_data, UrPrefix)
           /\ ~StartsWith(AfterPrefix(ur_data), UrPrefix)
        => result = DecodeUr(AfterPrefix(ur_data), cbor2_available)
    /\ pc # "main" /\ ~StartsWith(ur_data, UrPrefix) => ur_content = ur_data

C3_Witness ==
    /\ pc = "done"
    /\ StartsWith(ur_data, UrPrefix)
    /\ ~StartsWith(AfterPrefix(ur_data), UrPrefix)
    /\ "extract" \in ran
    /\ result.tag = "str"

\* C10: decode never returns an empty string: its result is none or a string
\* of length >= 1 (or it raised), so main reports success exactly when decode
\* returned a string.
C10_NeverEmptyString ==
    /\ pc \in {"returned", "done"} =>
           /\ result.tag \in {"none", "str", "raise"}
           /\ result.tag = "str" => Len(result.val) >= 1
    /\ pc = "done" => (success <=> result.tag = "str")

\* The extractor gave the empty string (an empty byte string under a known
\* name) and the run ended without success.
C10_Witness ==
    /\ pc = "done"
    /\ tx_blob = StrVal(<<>>)
    /\ result = NoneVal
    /\ ~success

----------------------------------------------------------------------------
(* The text decoders on their own (specification SpecText): every string   *)
(* of at most MaxWord characters of TextChars, alone or followed by eight  *)
(* letters "b", is given to decode_base32_alphabet and to                  *)
(* decode_keystone_bytewords.                                              *)

\* "A", "z", "0", "9", "#", "=", U+00DF and U+017F.
TextChars == {65, 122, 48, 57, 35, 61, 223, 383}

MaxWord == 3

Words == UNION { [1..n -> TextChars] : n \in 0..MaxWord }

TextInputs == { w \o Rep(<<98>>, k) : w \in Words, k \in {0, 8} }

InitText ==
    /\ ur_content \in TextInputs
    /\ ur_data = ur_content
    /\ cbor2_available = TRUE
    /\ pc \in {"method1", "call_bytewords"}
    /\ Unset

\* A call of decode_keystone_bytewords (lines 13-42) on the text.
BytewordsCall ==
    /\ pc = "call_bytewords"
    /\ bytewords_result' = decode_keystone_bytewords(ur_content)
    /\ ran' = ran \cup {"bytewords"}
    /\ pc' = "called"
    /\ UNCHANGED <<ur_data, cbor2_available, ur_content, decoded_bytes,
                   cbor_data, tx_blob, result, success>>

NextText ==
    \/ BytewordsCall
    \/ Base32Entry
    \/ Base32FallbackStep

SpecText == InitText /\ [][NextText]_vars
\* The digit value the claim gives a character: A-Z and a-z are 0-25, 0-9 are
\* 26-35, every other character is 0.
ClaimedDigit(c) ==
    IF c >= 65 /\ c <= 90 THEN c - 65
    ELSE IF c >= 97 /\ c <= 122 THEN c - 97
    ELSE IF c >= 48 /\ c <= 57 THEN c - 48 + 26
    ELSE 0

\* C6 (as claimed): the word-chunk decoding of any string of length n gives
\* floor(n / 4) bytes, byte k being the base-36 value of the k-th group of four
\* characters modulo 256.
C6_Claim ==
    pc = "called" =>
        /\ bytewords_result.tag = "bytes"
        /\ Len(bytewords_result.val) = Len(ur_content) \div 4
        /\ \A k \in 1..(Len(ur_content) \div 4) :
               bytewords_result.val[k] =
                   (ClaimedDigit(ur_content[4 * k - 3]) * 46656
                    + ClaimedDigit(ur_content[4 * k - 2]) * 1296
                    + ClaimedDigit(ur_content[4 * k - 1]) * 36
                    + ClaimedDigit(ur_content[4 * k])) % 256

----------------------------------------------------------------------------
(* extract_xrpl_transaction on its own (specification SpecExtract): every  *)
(* dict of at most MaxPairs items whose keys are three of the field names  *)
(* or "other" and whose values are texts, byte strings or small dicts.     *)
(* A Python dict has no two equal keys.                                    *)

\* "zz", "1a", "1a" followed by a newline, b"" and b"\xab".
ExtractLeaves ==
    {StrVal(<<122, 122>>), StrVal(<<49, 97>>), StrVal(<<49, 97, 10>>), BytesVal(<<>>), BytesVal(<<171>>)}

InnerDicts ==
    { DictVal(<<Pair(F_hex, StrVal(<<49, 97>>))>>),
      DictVal(<<Pair(F_hex, StrVal(<<122, 122>>))>>),
      DictVal(<<Pair(F_data, BytesVal(<<>>))>>),
      DictVal(<<Pair(K_other, DictVal(<<Pair(F_hex, StrVal(<<49, 97>>))>>))>>) }

ExtractKeys == {F_signedTransaction, F_signature, F_txBlob, K_other}

ExtractValues == ExtractLeaves \cup InnerDicts

MaxPairs == 3

\* The sequences of n distinct keys.
KeySeqs(n) == { ks \in [1..n -> ExtractKeys] : \A i, j \in 1..n : i # j => ks[i] # ks[j] }

InitExtract ==
    /\ \E n \in 0..MaxPairs :
           \E ks \in KeySeqs(n) :
               \E vs \in [1..n -> ExtractValues] :
                   cbor_data = DictVal([i \in 1..n |-> Pair(ks[i], vs[i])])
    /\ ur_data = <<>>
    /\ ur_content = <<>>
    /\ cbor2_available = TRUE
    /\ pc = "call_extract"
    /\ bytewords_result = NoneVal
    /\ decoded_bytes = NoneVal
    /\ tx_blob = NoneVal
    /\ result = NoneVal
    /\ success = FALSE
    /\ ran = {}

\* A call of extract_xrpl_transaction (lines 89-123) on the value.
ExtractCall ==
    /\ pc = "call_extract"
    /\ tx_blob' = extract_xrpl_transaction(cbor_data)
    /\ ran' = ran \cup {"extract"}
    /\ pc' = "called"
    /\ UNCHANGED <<ur_data, cbor2_available, ur_content, bytewords_result,
                   decoded_bytes, cbor_data, result, success>>

NextExtract == ExtractCall

SpecExtract == InitExtract /\ [][NextExtract]_vars

\* Hex text: a non-empty text of the characters 0-9, A-F, a-f.
IsHexText(v) == v.tag = "str" /\ v.val # <<>> /\ \A i \in DOMAIN v.val : HexChar(v.val[i])

\* A value the claims call qualifying: hex text or a byte string.
Qualifies(v) == IsHexText(v) \/ v.tag = "bytes"

\* A value the test of lines 111-113 accepts: a byte string, hex text, or hex
\* text followed by one newline.
Accepted(v) ==
    \/ v.tag = "bytes"
    \/ IsHexText(v)
    \/ /\ v.tag = "str"
       /\ Len(v.val) >= 2
       /\ v.val[Len(v.val)] = 10
       /\ \A i \in 1..(Len(v.val) - 1) : HexChar(v.val[i])

\* The character c in upper case, for a hex digit.
UpperHexChar(c) == IF c >= 97 /\ c <= 102 THEN c - 32 ELSE c

UpperHexDigit(n) == IF n < 10 THEN 48 + n ELSE 55 + n

\* What the extractor returns for a qualifying value.
Converted(v) ==
    IF v.tag = "str" THEN StrVal([i \in DOMAIN v.val |-> UpperHexChar(v.val[i])])
    ELSE StrVal([i \in 1..(2 * Len(v.val)) |->
                    IF i % 2 = 1 THEN UpperHexDigit(v.val[(i + 1) \div 2] \div 16)
                    ELSE UpperHexDigit(v.val[i \div 2] % 16)])

\* The places in the priority order of the names that are keys of d, and of
\* those that hold a qualifying value.
PresentNames(d) == { f \in DOMAIN possible_fields : DictHas(d, possible_fields[f]) }
QualifyingNames(d) == { f \in PresentNames(d) : Qualifies(DictGet(d, possible_fields[f])) }
AcceptedNames(d) == { f \in PresentNames(d) : Accepted(DictGet(d, possible_fields[f])) }

Least(S) == CHOOSE x \in S : \A y \in S : x <= y

\* C4 (as claimed): a map whose key signature holds non-hex text and whose key
\* txBlob holds a hex text H, with no earlier name holding a qualifying value,
\* gives H in upper case.
C4_Claim ==
    pc = "called" /\ DictHas(cbor_data, F_signature) /\ DictHas(cbor_data, F_txBlob) =>
        LET sig == DictGet(cbor_data, F_signature)
            blob == DictGet(cbor_data, F_txBlob)
        IN (/\ sig.tag = "str" /\ ~IsHexText(sig)
            /\ IsHexText(blob)
            /\ \A f \in QualifyingNames(cbor_data) : f >= 3)
           => tx_blob = Converted(blob)

\* The results of the extractor on the values of d that are dicts, by place.
NestedResults(d) ==
    [i \in DOMAIN d.val |->
        IF d.val[i].v.tag = "dict" THEN extract_xrpl_transaction(d.val[i].v) ELSE NoneVal]

C9_Claim ==
    pc = "called" /\ PresentNames(cbor_data) # {} =>
        LET first == DictGet(cbor_data, possible_fields[Least(PresentNames(cbor_data))])
        IN ~Qualifies(first) => tx_blob = NestedLoop(cbor_data, 1)

\* C9 (amended): the names present are inspected in priority order until one
\* holds a value the test accepts, whose conversion is returned; a value that
\* is not accepted is passed over and the next name is tried; the nested
\* search runs only when no name present holds an accepted value.
C9_AllNamesTried ==
    pc = "called" =>
        IF AcceptedNames(cbor_data) # {}
        THEN tx_blob = Converted(DictGet(cbor_data, possible_fields[Least(AcceptedNames(cbor_data))]))
        ELSE tx_blob = NestedLoop(cbor_data, 1)

\* The first name present (signedTransaction) holds text that is not hex, a
\* later one (txBlob) holds a byte string, and its hex came out although a
\* nested map was there to search.
C9_Witness ==
    /\ pc = "called"
    /\ cbor_data = DictVal(<<Pair(K_other, DictVal(<<Pair(F_hex, StrVal(<<49, 97>>))>>)),
                            Pair(F_txBlob, BytesVal(<<171>>)),
                            Pair(F_signedTransaction, StrVal(<<122, 122>>))>>)
    /\ tx_blob = StrVal(<<65, 66>>)

----------------------------------------------------------------------------
(* The hex scan on its own (specification SpecScan): contents made of an   *)
(* optional lead "xyz", a hex run, an optional "#" and a second hex run;   *)
(* a run starts with "12", "05" or "99", continues with "A" or with "b",   *)
(* and has 99 to 100 + MaxExtra characters, or is empty.                   *)

MaxExtra == 1

ScanRuns ==
    { HexRun(start, fill, n) : start \in {<<49, 50>>, <<48, 53>>, <<57, 57>>},
                               fill \in {65, 98},
                               n \in 99..(100 + MaxExtra) }
    \cup {<<>>}

ScanInputs ==
    { lead \o r1 \o sep \o r2 : lead \in {<<>>, <<120, 121, 122>>}, r1 \in ScanRuns,
                                 sep \in {<<>>, <<35>>}, r2 \in ScanRuns }

InitScan ==
    /\ ur_content \in ScanInputs
    /\ ur_data = ur_content
    /\ cbor2_available = TRUE
    /\ pc = "method2"
    /\ Unset

NextScan == ScanStep

SpecScan == InitScan /\ [][NextScan]_vars

\* The places where a maximal run of hex characters starts, and where the run
\* that starts at i ends.
RunStarts(s) == { i \in DOMAIN s : HexChar(s[i]) /\ (i = 1 \/ ~HexChar(s[i - 1])) }
RunLast(s, i) == Least({ e \in i..Len(s) : e = Len(s) \/ ~HexChar(s[e + 1]) })

\* C5: the scan returns, in upper case, the first maximal run of 100 or more
\* hex characters that starts with 12, 00, 01, 02, 03 or 05, and none when no
\* run qualifies.
C5_FirstQualifyingRun ==
    pc = "returned" =>
        LET s == ur_content
            run(i) == SubSeq(s, i, RunLast(s, i))
            qualifying ==
                { i \in RunStarts(s) :
                    /\ Len(run(i)) >= 100
                    /\ SubSeq(run(i), 1, 2) \in {<<49, 50>>, <<48, 48>>, <<48, 49>>, <<48, 50>>, <<48, 51>>, <<48, 53>>} }
        IN result = IF qualifying = {} THEN NoneVal
                    ELSE LET r == run(Least(qualifying))
                         IN StrVal([k \in DOMAIN r |-> UpperHexChar(r[k])])

\* A first run of 100 characters that starts with "99", then a run of 100
\* that starts with "05" and goes on in lower case: the second came out, in
\* upper case.
C5_Witness ==
    /\ pc = "returned"
    /\ ur_content = <<120, 121, 122>> \o HexRun(<<57, 57>>, 65, 100) \o <<35>> \o HexRun(<<48, 53>>, 98, 100)
    /\ result = StrVal(HexRun(<<48, 53>>, 66, 100))

====
